---- MODULE Spec2Model ----
(***************************************************************************)
(* Model of src/tracking_electoral.py: the survey table is loaded, cleaned *)
(* (limpiar_datos), aggregated (indicadores_sociodemograficos and the      *)
(* daily series of tracking_electoral), smoothed with a rolling window     *)
(* (aplicar_funcion_ventana) and handed to the chart renderer.             *)
(*                                                                         *)
(* Conventions.  A nullable cell is a tuple of length 0 (missing, NaN/NA)  *)
(* or 1 (present).  Text that the code strips, lower-cases or title-cases  *)
(* is a sequence of one-character strings, so those conversions are        *)
(* computed character by character.  Floating point numbers are exact      *)
(* rationals [n, d] in lowest terms with d > 0.  Columns the model leaves  *)
(* out (Nivel Educativo, Cantidad de Integrantes en el Hogar) are never    *)
(* read by the code after loading.                                         *)
(***************************************************************************)
EXTENDS Integers, Sequences, FiniteSets, TLC

VARIABLES pc, config, columnas, csv, df, limpio, relimpio, indicadores,
          tracking, error, grafico, hechos, llamada, retorno

vars == <<pc, config, columnas, csv, df, limpio, relimpio, indicadores,
          tracking, error, grafico, hechos, llamada, retorno, columnas>>

(***************************************************************************)
(* Bounds of the model.                                                    *)
(***************************************************************************)
MaxFilas == 2
MaxFilasSerie == 3
MaxLen == 4
MaxVentana == 3

(***************************************************************************)
(* Nullable cells.                                                         *)
(***************************************************************************)
NA == <<>>
Some(v) == <<v>>
IsNA(x) == Len(x) = 0
Val(x) == x[1]

SetMin(S) == CHOOSE x \in S : \A y \in S : x <= y
SetMax(S) == CHOOSE x \in S : \A y \in S : y <= x

\* The elements of a sequence at the positions that satisfy P, in order.
FiltrarPos(t, P(_)) ==
    LET F[i \in 0..Len(t)] ==
            IF i = 0 THEN <<>>
            ELSE IF P(i) THEN Append(F[i - 1], t[i]) ELSE F[i - 1]
    IN F[Len(t)]

(***************************************************************************)
(* Exact rationals standing for the floats of the code.                    *)
(***************************************************************************)
RECURSIVE GCD(_, _)
GCD(a, b) == IF b = 0 THEN a ELSE GCD(b, a % b)
Abs(x) == IF x < 0 THEN 0 - x ELSE x
Rat(n, d) == LET g == GCD(Abs(n), d) IN [n |-> n \div g, d |-> d \div g]
RatInt(k) == [n |-> k, d |-> 1]
RatAdd(a, b) == Rat(a.n * b.d + b.n * a.d, a.d * b.d)
RatSub(a, b) == Rat(a.n * b.d - b.n * a.d, a.d * b.d)
RatDivInt(a, k) == Rat(a.n, a.d * k)
RatLeq(a, b) == a.n * b.d <= b.n * a.d
RatLt(a, b) == a.n * b.d < b.n * a.d

(***************************************************************************)
(* Text: str.strip, str.lower, str.title on sequences of characters.       *)
(***************************************************************************)
Minusculas == <<"a", "b", "c", "d", "e", "f", "g", "h", "i", "j", "k", "l", "m",
                "n", "o", "p", "q", "r", "s", "t", "u", "v", "w", "x", "y", "z">>
Mayusculas == <<"A", "B", "C", "D", "E", "F", "G", "H", "I", "J", "K", "L", "M",
                "N", "O", "P", "Q", "R", "S", "T", "U", "V", "W", "X", "Y", "Z">>
EsMinuscula(c) == \E i \in 1..Len(Minusculas) : Minusculas[i] = c
EsMayuscula(c) == \E i \in 1..Len(Mayusculas) : Mayusculas[i] = c
EsLetra(c) == EsMinuscula(c) \/ EsMayuscula(c)
EsEspacio(c) == c \in {" ", "\t"}
Lower(c) ==
    IF EsMayuscula(c)
    THEN Minusculas[CHOOSE i \in 1..Len(Mayusculas) : Mayusculas[i] = c]
    ELSE c
Upper(c) ==
    IF EsMinuscula(c)
    THEN Mayusculas[CHOOSE i \in 1..Len(Minusculas) : Minusculas[i] = c]
    ELSE c
StrLower(s) == [i \in 1..Len(s) |-> Lower(s[i])]
StrStrip(s) ==
    LET llenos == {i \in 1..Len(s) : ~EsEspacio(s[i])}
    IN IF llenos = {} THEN <<>> ELSE SubSeq(s, SetMin(llenos), SetMax(llenos))
\* str.title: a cased character is upper-cased when it starts a word (the
\* previous character is not cased) and lower-cased otherwise.
StrTitle(s) ==
    [i \in 1..Len(s) |->
        IF i > 1 /\ EsLetra(s[i - 1]) THEN Lower(s[i]) ELSE Upper(s[i])]
\* astype(str): a missing cell becomes the text "<NA>".
AsStr(x) == IF IsNA(x) THEN <<"<", "N", "A", ">">> ELSE Val(x)

(***************************************************************************)
(* Tables.  A row is a record of nullable cells; idx is the row's index    *)
(* label, which drop_duplicates and dropna carry along.  The three derived *)
(* columns are missing until limpiar_datos sets them.                      *)
(***************************************************************************)
Fila(fecha, encuesta, estrato, sexo, edad, imagen, voto, anterior) ==
    [idx |-> 0, Fecha |-> fecha, Encuesta |-> encuesta, Estrato |-> estrato,
     Sexo |-> sexo, Edad |-> edad, Imagen |-> imagen, Voto |-> voto,
     VotoAnterior |-> anterior, ImagenNormalizada |-> NA,
     IntencionVoto |-> NA, EdadRango |-> NA]
\* reset_index(drop=True): a dense index in row order (from 1 here).
ResetIndex(t) == [i \in 1..Len(t) |-> [t[i] EXCEPT !.idx = i]]
Tablas(U, n) == UNION {[1..k -> U] : k \in 0..n}

(***************************************************************************)
(* limpiar_datos                                                           *)
(***************************************************************************)
Bajo == <<"B", "a", "j", "o">>
Medio == <<"M", "e", "d", "i", "o">>
Alto == <<"A", "l", "t", "o">>
\* estratos_validos, as the lookup that Series.map performs.
estratos_validos(s) ==
    IF s = <<"b", "a", "j", "o">> THEN Some(Bajo)
    ELSE IF s = <<"m", "e", "d", "i", "o">> THEN Some(Medio)
    ELSE IF s = <<"a", "l", "t", "o">> THEN Some(Alto)
    ELSE NA

\* drop_duplicates(subset=[Encuesta, Estrato, Sexo, Edad]), keep="first";
\* missing cells compare equal to each other.
ClaveDuplicados(r) == <<r.Encuesta, r.Estrato, r.Sexo, r.Edad>>
DropDuplicates(t) ==
    FiltrarPos(t, LAMBDA i :
        \A j \in 1..(i - 1) : ClaveDuplicados(t[j]) # ClaveDuplicados(t[i]))

\* dropna(subset=columnas_obligatorias)
DropNAObligatorias(t) ==
    SelectSeq(t, LAMBDA r : /\ ~IsNA(r.Fecha)
                            /\ ~IsNA(r.Imagen)
                            /\ ~IsNA(r.Voto)
                            /\ ~IsNA(r.VotoAnterior))

NormalizarEstrato(x) == estratos_validos(StrLower(StrStrip(AsStr(x))))
DropNAEstrato(t) == SelectSeq(t, LAMBDA r : ~IsNA(r.Estrato))
NormalizarVoto(x) == StrTitle(StrStrip(AsStr(x)))
\* Variant: only the lower limit is applied.
ClipSinTope(x, lo, hi) == IF x < lo THEN lo ELSE x
Clip(x, lo, hi) == IF x < lo THEN lo ELSE IF x > hi THEN hi ELSE x
ImagenNormalizadaDe(imagen) == Rat(Clip(imagen, 0, 100), 100)
IntencionVotoDe(voto, candidato_objetivo) ==
    IF voto = StrTitle(candidato_objetivo) THEN 1 ELSE 0
\* pd.cut(bins=[17, 29, 44, 59, 120]), right-closed intervals.
EdadRangoDe(edad) ==
    IF IsNA(edad) THEN NA
    ELSE LET e == Val(edad)
         IN IF 17 < e /\ e <= 29 THEN Some("18-29")
            ELSE IF 29 < e /\ e <= 44 THEN Some("30-44")
            ELSE IF 44 < e /\ e <= 59 THEN Some("45-59")
            ELSE IF 59 < e /\ e <= 120 THEN Some("60+")
            ELSE NA

limpiar_datos(t, candidato_objetivo) ==
    LET sinDuplicados == DropDuplicates(t)
        completos == DropNAObligatorias(sinDuplicados)
        conEstrato == [i \in 1..Len(completos) |->
            [completos[i] EXCEPT !.Estrato = NormalizarEstrato(@)]]
        validos == DropNAEstrato(conEstrato)
    IN [i \in 1..Len(validos) |->
            LET r == validos[i]
                voto == NormalizarVoto(r.Voto)
            IN [r EXCEPT
                  !.Voto = Some(voto),
                  !.VotoAnterior = Some(NormalizarVoto(r.VotoAnterior)),
                  !.ImagenNormalizada = Some(ImagenNormalizadaDe(Val(r.Imagen))),
                  !.IntencionVoto = Some(IntencionVotoDe(voto, candidato_objetivo)),
                  !.EdadRango = EdadRangoDe(r.Edad)]]

(***************************************************************************)
(* Aggregation: groupby(...).agg(...).reset_index()                        *)
(***************************************************************************)
\* The elements of S in ascending order of rank (ranks are distinct on S).
OrdenarPor(S, rank(_)) ==
    [i \in 1..Cardinality(S) |->
        CHOOSE x \in S : Cardinality({y \in S : rank(y) < rank(x)}) = i - 1]

RECURSIVE RatSum(_)
RatSum(s) == IF Len(s) = 0 THEN RatInt(0) ELSE RatAdd(s[1], RatSum(Tail(s)))
\* "mean" of a group column without missing cells.
Mean(s) == RatDivInt(RatSum(s), Len(s))
\* "count": the number of cells of the column that are not missing.
Count(s) == Len(SelectSeq(s, LAMBDA x : ~IsNA(x)))
Columna(t, celda(_)) == [i \in 1..Len(t) |-> celda(t[i])]

\* Sexo is a category whose categories are sorted ("F" < "M"); Edad Rango is
\* ordered by its bins.
SexoOrden(x) == IF x = "F" THEN 1 ELSE 2
RangoOrden(x) ==
    IF x = "18-29" THEN 1 ELSE IF x = "30-44" THEN 2 ELSE IF x = "45-59" THEN 3 ELSE 4
ClaveIndicadores(r) == <<r.Fecha, r.Sexo, r.EdadRango>>
ClaveOrden(k) == Val(k[1]) * 100 + SexoOrden(Val(k[2])) * 10 + RangoOrden(Val(k[3]))

\* groupby drops the rows with a missing key (dropna=True), emits only the
\* groups observed (observed=True) and sorts them by key.
indicadores_sociodemograficos(t) ==
    LET claves == {k \in {ClaveIndicadores(t[i]) : i \in 1..Len(t)} :
                      ~IsNA(k[1]) /\ ~IsNA(k[2]) /\ ~IsNA(k[3])}
        orden == OrdenarPor(claves, ClaveOrden)
    IN [g \in 1..Len(orden) |->
            LET grupo == SelectSeq(t, LAMBDA r : ClaveIndicadores(r) = orden[g])
            IN [Fecha |-> orden[g][1], Sexo |-> orden[g][2],
                EdadRango |-> orden[g][3],
                n |-> Count(Columna(grupo, LAMBDA r : r.Encuesta)),
                imagen_media |->
                    Mean(Columna(grupo, LAMBDA r : RatInt(Val(r.Imagen)))),
                intencion_media |->
                    Mean(Columna(grupo, LAMBDA r : RatInt(Val(r.IntencionVoto))))]]

\* Variant: the daily series is built from the rows that have an age bracket.
SerieDiariaConRango(t) ==
    LET u == SelectSeq(t, LAMBDA r : ~IsNA(r.EdadRango))
        fechas == {u[i].Fecha : i \in 1..Len(u)} \ {NA}
        orden == OrdenarPor(fechas, Val)
    IN [g \in 1..Len(orden) |->
            LET grupo == SelectSeq(u, LAMBDA r : r.Fecha = orden[g])
            IN [Fecha |-> orden[g],
                IntencionVoto |->
                    Mean(Columna(grupo, LAMBDA r : RatInt(Val(r.IntencionVoto)))),
                ImagenMedia |->
                    Mean(Columna(grupo, LAMBDA r : Val(r.ImagenNormalizada)))]]
\* The daily series of tracking_electoral: one row per date, sorted by date.
SerieDiaria(t) ==
    LET fechas == {t[i].Fecha : i \in 1..Len(t)} \ {NA}
        orden == OrdenarPor(fechas, Val)
    IN [g \in 1..Len(orden) |->
            LET grupo == SelectSeq(t, LAMBDA r : r.Fecha = orden[g])
            IN [Fecha |-> orden[g],
                IntencionVoto |->
                    Mean(Columna(grupo, LAMBDA r : RatInt(Val(r.IntencionVoto)))),
                ImagenMedia |->
                    Mean(Columna(grupo, LAMBDA r : Val(r.ImagenNormalizada)))]]

(***************************************************************************)
(* aplicar_funcion_ventana: rolling(window=ventana, min_periods=1).        *)
(* The window slides over the column: each step adds the new observation   *)
(* and removes the one that left the window.                               *)
(***************************************************************************)
MensajeVentana == "ValueError: La ventana debe ser un entero positivo"
MensajeFuncion == "ValueError: Funcion de ventana no soportada"
MensajeColumna == "KeyError: columna"
MensajeFecha == "ValueError: Missing column provided to 'parse_dates': 'Fecha'"
Ok(v) == [error |-> "", valor |-> v]
Raise(e) == [error |-> e, valor |-> <<>>]

\* Variant: the observation that leaves the window is never removed.
RollingSumSinQuitar(s, ventana) ==
    LET A[i \in 0..Len(s)] ==
            IF i = 0 THEN RatInt(0) ELSE RatAdd(A[i - 1], s[i])
    IN [i \in 1..Len(s) |-> A[i]]
Nobs(i, ventana) == IF i < ventana THEN i ELSE ventana
RollingSum(s, ventana) ==
    LET A[i \in 0..Len(s)] ==
            IF i = 0 THEN RatInt(0)
            ELSE IF i > ventana
                 THEN RatSub(RatAdd(A[i - 1], s[i]), s[i - ventana])
                 ELSE RatAdd(A[i - 1], s[i])
    IN [i \in 1..Len(s) |-> A[i]]
RollingMean(s, ventana) ==
    LET sumas == RollingSum(s, ventana)
    IN [i \in 1..Len(s) |-> RatDivInt(sumas[i], Nobs(i, ventana))]
\* The sorted window kept by the rolling median.
Insertar(w, x) ==
    LET k == Cardinality({j \in 1..Len(w) : RatLeq(w[j], x)})
    IN SubSeq(w, 1, k) \o <<x>> \o SubSeq(w, k + 1, Len(w))
Quitar(w, x) ==
    LET k == CHOOSE j \in 1..Len(w) : w[j] = x
    IN SubSeq(w, 1, k - 1) \o SubSeq(w, k + 1, Len(w))
MedianaOrdenada(w) ==
    IF Len(w) % 2 = 1 THEN w[(Len(w) + 1) \div 2]
    ELSE RatDivInt(RatAdd(w[Len(w) \div 2], w[Len(w) \div 2 + 1]), 2)
RollingMedian(s, ventana) ==
    LET W[i \in 0..Len(s)] ==
            IF i = 0 THEN <<>>
            ELSE IF i > ventana
                 THEN Quitar(Insertar(W[i - 1], s[i]), s[i - ventana])
                 ELSE Insertar(W[i - 1], s[i])
    IN [i \in 1..Len(s) |-> MedianaOrdenada(W[i])]

\* Variant: an unknown function tag falls back to the mean.
aplicar_funcion_ventana_por_defecto(d, columna, ventana, funcion) ==
    IF ventana <= 0 THEN Raise(MensajeVentana)
    ELSE IF columna \notin DOMAIN d THEN Raise(MensajeColumna)
    ELSE IF funcion = "median" THEN Ok(RollingMedian(d[columna], ventana))
    ELSE IF funcion = "sum" THEN Ok(RollingSum(d[columna], ventana))
    ELSE Ok(RollingMean(d[columna], ventana))
\* d maps the names of the numeric columns of the table to their values.
aplicar_funcion_ventana(d, columna, ventana, funcion) ==
    IF ventana <= 0 THEN Raise(MensajeVentana)
    ELSE IF columna \notin DOMAIN d THEN Raise(MensajeColumna)
    ELSE IF funcion = "mean" THEN Ok(RollingMean(d[columna], ventana))
    ELSE IF funcion = "median" THEN Ok(RollingMedian(d[columna], ventana))
    ELSE IF funcion = "sum" THEN Ok(RollingSum(d[columna], ventana))
    ELSE Raise(MensajeFuncion)

ColumnasNumericas(serie) ==
    [c \in {"IntencionVoto", "ImagenMedia"} |->
        [i \in 1..Len(serie) |->
            IF c = "IntencionVoto" THEN serie[i].IntencionVoto
            ELSE serie[i].ImagenMedia]]

\* Variant: the window is always applied to the vote-intention column.
tracking_electoral_fija(t, cfg) ==
    LET serie_diaria == SerieDiaria(t)
        r == aplicar_funcion_ventana(ColumnasNumericas(serie_diaria),
                 "IntencionVoto", cfg.ventana, cfg.tipo_resumen)
    IN IF r.error # "" THEN r
       ELSE Ok([i \in 1..Len(serie_diaria) |->
                   [Fecha |-> serie_diaria[i].Fecha,
                    IntencionVoto |-> serie_diaria[i].IntencionVoto,
                    ImagenMedia |-> serie_diaria[i].ImagenMedia,
                    TrackingSuavizado |-> r.valor[i]]])
tracking_electoral(t, cfg) ==
    LET serie_diaria == SerieDiaria(t)
        r == aplicar_funcion_ventana(ColumnasNumericas(serie_diaria),
                 cfg.columna_objetivo, cfg.ventana, cfg.tipo_resumen)
    IN IF r.error # "" THEN r
       ELSE Ok([i \in 1..Len(serie_diaria) |->
                   [Fecha |-> serie_diaria[i].Fecha,
                    IntencionVoto |-> serie_diaria[i].IntencionVoto,
                    ImagenMedia |-> serie_diaria[i].ImagenMedia,
                    TrackingSuavizado |-> r.valor[i]]])

(***************************************************************************)
(* cargar_datos: sort_values("Fecha") uses the default, unstable sort, so  *)
(* rows of one date may come out in any order; missing dates go last.      *)
(***************************************************************************)
FechaOrdenada(t) ==
    \A i \in 1..Len(t), j \in 1..Len(t) :
        i < j => \/ IsNA(t[j].Fecha)
                 \/ (~IsNA(t[i].Fecha) /\ Val(t[i].Fecha) <= Val(t[j].Fecha))
Permutaciones(n) == {p \in [1..n -> 1..n] : \A i, j \in 1..n : p[i] = p[j] => i = j}
cargar_datos(t) ==
    {ResetIndex([i \in 1..Len(t) |-> t[p[i]]]) : p \in
        {q \in Permutaciones(Len(t)) : FechaOrdenada([i \in 1..Len(t) |-> t[q[i]]])}}

(***************************************************************************)
(* TrackingConfig and the inputs the specifications draw from.             *)
(***************************************************************************)
CandidatoA == <<"C", "a", "n", "d", "i", "d", "a", "t", "o", " ", "A">>
CandidatoB == <<"C", "a", "n", "d", "i", "d", "a", "t", "o", " ", "B">>
Partido == <<"p", "a", "r", "t", "i", "d", "o", " ", "x">>
RutaGrafico == "output/tracking.png"
TrackingConfig ==
    [ventana |-> 3, tipo_resumen |-> "mean", columna_objetivo |-> "IntencionVoto",
     candidato_objetivo |-> CandidatoA, ruta_grafico |-> Some(RutaGrafico)]

\* The columns of the file that the code names; a file may lack some.
ColumnasCSV ==
    {"Fecha", "Encuesta", "Estrato", "Sexo", "Edad", "Imagen del Candidato",
     "Voto", "Voto Anterior"}
Fechas == {Some(1), Some(2)}
EncuestaDe(fecha) == IF IsNA(fecha) THEN Some("e0") ELSE Some(<<"e1", "e2", "e3">>[Val(fecha)])

\* Rows for the cleaning rules on text: spellings of one stratum and of one
\* candidate, with and without surrounding blanks.
UniversoLimpiar ==
    {Fila(Some(1), Some("e1"), Some(estrato), Some("F"), edad, Some(50), Some(voto),
          Some(Partido)) :
        estrato \in {<<" ">> \o Bajo \o <<" ">>, StrLower(Bajo), <<"M", "E", "D", "I", "O">>},
        edad \in {Some(30), NA},
        voto \in {CandidatoA, <<" ">> \o StrLower(CandidatoA) \o <<" ">>, CandidatoB}}
CandidatosLimpiar ==
    {CandidatoA, StrLower(CandidatoA), <<" ">> \o StrLower(CandidatoA), CandidatoB}

\* Rows for the filters and ranges: each required cell may be missing, the
\* stratum may be unmappable or missing, the image score may be out of range.
UniversoRangos ==
    {Fila(IF falta = "Fecha" THEN NA ELSE Some(1), Some("e1"), estrato, Some("F"),
          Some(30), imagen,
          IF falta = "Voto" THEN NA ELSE Some(StrLower(CandidatoA)),
          IF falta = "Voto Anterior" THEN NA ELSE Some(Partido)) :
        falta \in {"", "Fecha", "Voto", "Voto Anterior"},
        estrato \in {Some(<<" ">> \o Bajo \o <<" ">>), Some(<<"A", "L", "T", "O">>),
                     Some(<<"d", "e", "s", "c">>), NA},
        imagen \in {Some(0 - 10), Some(50), Some(150), NA}}

\* Rows for the aggregations: ages inside and outside the brackets.
UniversoAgregar ==
    {Fila(fecha, EncuestaDe(fecha), Some(Bajo), Some(sexo), edad, Some(respuesta[2]),
          Some(respuesta[1]), Some(Partido)) :
        fecha \in Fechas,
        sexo \in {"F", "M"},
        edad \in {NA, Some(17), Some(30), Some(121)},
        respuesta \in {<<CandidatoA, 80>>, <<CandidatoB, 60>>, <<CandidatoB, 80>>}}

\* Rows for the demographic summary: the survey id and the sex may be missing.
UniversoIndicadores ==
    {Fila(fecha, encuesta, Some(Bajo), sexo, edad, Some(imagen), Some(voto),
          Some(Partido)) :
        fecha \in Fechas,
        encuesta \in {Some("e1"), NA},
        sexo \in {Some("F"), Some("M"), NA},
        edad \in {Some(30), Some(40), NA},
        imagen \in {60, 80},
        voto \in {CandidatoA, CandidatoB}}

\* Rows for the smoothed series: up to three dates.
UniversoTracking ==
    {Fila(fecha, EncuestaDe(fecha), Some(Bajo), Some("F"), Some(30),
          Some(IF voto = CandidatoA THEN 80 ELSE 60), Some(voto), Some(Partido)) :
        fecha \in Fechas \cup {Some(3)},
        voto \in {CandidatoA, CandidatoB}}
ConfigsTracking ==
    {[TrackingConfig EXCEPT !.ventana = v, !.tipo_resumen = f, !.columna_objetivo = c] :
        v \in 0..MaxVentana,
        f \in {"mean", "median", "sum", "otra"},
        c \in {"IntencionVoto", "ImagenMedia", "Otra"}}

\* Rows and configurations for whole runs of ejecutar_tracking.
UniversoPipeline ==
    {Fila(fecha, EncuestaDe(fecha), Some(Bajo), Some("F"), Some(30), Some(80),
          Some(voto), Some(Partido)) :
        fecha \in Fechas \cup {NA}, voto \in {CandidatoA, CandidatoB}}
ConfigsPipeline ==
    {[TrackingConfig EXCEPT !.ventana = v, !.tipo_resumen = f,
                            !.columna_objetivo = c, !.ruta_grafico = r] :
        v \in {0, 2},
        f \in {"mean", "otra"},
        c \in {"IntencionVoto", "Otra"},
        r \in {NA, Some(RutaGrafico)}}

\* Calls of aplicar_funcion_ventana on a table with one numeric column "x".
Valores == {RatInt(1), RatInt(2), RatInt(3), RatInt(4)}
Llamadas ==
    {[d |-> [c \in {"x"} |-> s], columna |-> col, ventana |-> v, funcion |-> f] :
        s \in Tablas(Valores, MaxLen),
        col \in {"x", "y"},
        v \in (0 - 1)..MaxVentana,
        f \in {"mean", "median", "sum", "otra"}}
SinLlamada == [d |-> [c \in {"x"} |-> <<>>], columna |-> "x", ventana |-> 1,
               funcion |-> "mean"]

(***************************************************************************)
(* Actions.  pc names the last stage that completed.                       *)
(***************************************************************************)
\* df = cargar_datos(ruta_csv); read_csv raises when the file cannot be parsed
\* or has no Fecha column to parse as dates.
Cargar ==
    /\ pc = "inicio"
    /\ hechos' = Append(hechos, "cargar")
    /\ \/ /\ "Fecha" \in columnas
          /\ df' \in cargar_datos(csv)
          /\ pc' = "cargado"
          /\ error' = error
       \/ /\ df' = df
          /\ pc' = "abortado"
          /\ error' \in {"ParserError"} \cup
                (IF "Fecha" \in columnas THEN {} ELSE {MensajeFecha})
    /\ UNCHANGED <<config, csv, limpio, relimpio, indicadores, tracking, grafico,
                   llamada, retorno, columnas>>

\* df = limpiar_datos(df, candidato_objetivo=config.candidato_objetivo); a
\* column that the table lacks raises KeyError where it is first named.
Limpiar ==
    /\ pc = "cargado"
    /\ hechos' = Append(hechos, "limpiar")
    /\ IF ColumnasCSV \subseteq columnas
       THEN /\ limpio' = limpiar_datos(df, config.candidato_objetivo)
            /\ pc' = "limpio"
            /\ error' = error
       ELSE /\ limpio' = limpio
            /\ pc' = "abortado"
            /\ error' = MensajeColumna
    /\ UNCHANGED <<config, csv, df, relimpio, indicadores, tracking, grafico,
                   llamada, retorno, columnas>>

\* limpiar_datos applied again to its own output.
Relimpiar ==
    /\ pc = "limpio"
    /\ relimpio' = limpiar_datos(limpio, config.candidato_objetivo)
    /\ pc' = "relimpio"
    /\ hechos' = Append(hechos, "limpiar")
    /\ UNCHANGED <<config, csv, df, limpio, indicadores, tracking, error, grafico,
                   llamada, retorno, columnas>>

\* indicadores = indicadores_sociodemograficos(df)
Indicadores ==
    /\ pc = "limpio"
    /\ indicadores' = indicadores_sociodemograficos(limpio)
    /\ pc' = "resumido"
    /\ hechos' = Append(hechos, "indicadores")
    /\ UNCHANGED <<config, csv, df, limpio, relimpio, tracking, error, grafico,
                   llamada, retorno, columnas>>

\* tracking = tracking_electoral(df, config): the daily series, then the window.
Tracking ==
    /\ pc = "resumido"
    /\ LET r == tracking_electoral(limpio, config)
       IN IF r.error = ""
          THEN /\ tracking' = r.valor
               /\ pc' = "suavizado"
               /\ error' = error
               /\ hechos' = hechos \o <<"serie", "ventana">>
          ELSE /\ tracking' = tracking
               /\ pc' = "abortado"
               /\ error' = r.error
               /\ hechos' = hechos \o <<"serie", "ventana">>
    /\ UNCHANGED <<config, csv, df, limpio, relimpio, indicadores, grafico,
                   llamada, retorno, columnas>>

\* Variant: the chart is written without looking at ruta_grafico.
GraficarSinGuardia ==
    /\ pc = "suavizado"
    /\ hechos' = Append(hechos, "graficar")
    /\ \/ /\ grafico' = TRUE
          /\ pc' = "fin"
          /\ error' = error
       \/ /\ grafico' = grafico
          /\ pc' = "abortado"
          /\ error' = "OSError"
    /\ UNCHANGED <<config, csv, df, limpio, relimpio, indicadores, tracking,
                   llamada, retorno, columnas>>
\* graficar_tracking(tracking, config): returns at once when ruta_grafico is
\* None; otherwise mkdir and savefig write the file or raise (OSError) with no
\* chart left behind.
Graficar ==
    /\ pc = "suavizado"
    /\ hechos' = Append(hechos, "graficar")
    /\ IF IsNA(config.ruta_grafico)
       THEN /\ grafico' = grafico
            /\ pc' = "fin"
            /\ error' = error
       ELSE \/ /\ grafico' = TRUE
               /\ pc' = "fin"
               /\ error' = error
            \/ /\ grafico' = grafico
               /\ pc' = "abortado"
               /\ error' = "OSError"
    /\ UNCHANGED <<config, csv, df, limpio, relimpio, indicadores, tracking,
                   llamada, retorno, columnas>>

\* One call of aplicar_funcion_ventana.
AplicarVentana ==
    /\ pc = "llamar"
    /\ retorno' = aplicar_funcion_ventana(llamada.d, llamada.columna,
                                          llamada.ventana, llamada.funcion)
    /\ pc' = "retornado"
    /\ UNCHANGED <<config, csv, df, limpio, relimpio, indicadores, tracking,
                   error, grafico, hechos, llamada, columnas>>

(***************************************************************************)
(* Specifications.                                                         *)
(***************************************************************************)
Vacio ==
    /\ limpio = <<>>
    /\ relimpio = <<>>
    /\ indicadores = <<>>
    /\ tracking = <<>>
    /\ error = ""
    /\ grafico = FALSE
    /\ hechos = <<>>
    /\ retorno = Ok(<<>>)

\* A table already loaded, about to be cleaned.
InitCargado(U, n, Cfgs) ==
    /\ pc = "cargado"
    /\ csv = <<>>
    /\ df \in {ResetIndex(t) : t \in Tablas(U, n)}
    /\ config \in Cfgs
    /\ columnas = ColumnasCSV
    /\ llamada = SinLlamada
    /\ Vacio

\* ejecutar_tracking(ruta_csv, config)
Init ==
    /\ pc = "inicio"
    /\ csv \in Tablas(UniversoPipeline, MaxFilas)
    /\ df = <<>>
    /\ config \in ConfigsPipeline
    /\ columnas \in {ColumnasCSV, ColumnasCSV \ {"Fecha"}, ColumnasCSV \ {"Estrato"}}
    /\ llamada = SinLlamada
    /\ Vacio
Next == Cargar \/ Limpiar \/ Indicadores \/ Tracking \/ Graficar
Spec == Init /\ [][Next]_vars

NextAgregar == Limpiar \/ Indicadores \/ Tracking

InitLimpiar ==
    InitCargado(UniversoLimpiar, MaxFilas,
        {[TrackingConfig EXCEPT !.candidato_objetivo = c] : c \in CandidatosLimpiar})
NextLimpiar == Limpiar \/ Relimpiar
SpecLimpiar == InitLimpiar /\ [][NextLimpiar]_vars

InitRangos == InitCargado(UniversoRangos, MaxFilas, {TrackingConfig})
SpecRangos == InitRangos /\ [][NextLimpiar]_vars

InitAgregar == InitCargado(UniversoAgregar, MaxFilas, {TrackingConfig})
SpecAgregar == InitAgregar /\ [][NextAgregar]_vars

InitIndicadores == InitCargado(UniversoIndicadores, MaxFilas, {TrackingConfig})
SpecIndicadores == InitIndicadores /\ [][NextAgregar]_vars

InitTracking == InitCargado(UniversoTracking, MaxFilasSerie, ConfigsTracking)
SpecTracking == InitTracking /\ [][NextAgregar]_vars

InitVentana ==
    /\ pc = "llamar"
    /\ csv = <<>>
    /\ df = <<>>
    /\ config = TrackingConfig
    /\ columnas = ColumnasCSV
    /\ llamada \in Llamadas
    /\ Vacio
NextVentana == AplicarVentana
SpecVentana == InitVentana /\ [][NextVentana]_vars

(***************************************************************************)
(* Properties.                                                             *)
(***************************************************************************)
\* The reduction of a window, computed from its rows alone.
VentanaDe(s, i, N) == SubSeq(s, IF i - N + 1 > 1 THEN i - N + 1 ELSE 1, i)
Kesimo(w, k) ==
    CHOOSE x \in {w[j] : j \in 1..Len(w)} :
        /\ Cardinality({j \in 1..Len(w) : RatLt(w[j], x)}) < k
        /\ Cardinality({j \in 1..Len(w) : RatLeq(w[j], x)}) >= k
Reduccion(f, w) ==
    IF f = "sum" THEN RatSum(w)
    ELSE IF f = "mean" THEN Rat(RatSum(w).n, RatSum(w).d * Len(w))
    ELSE IF Len(w) % 2 = 1 THEN Kesimo(w, (Len(w) + 1) \div 2)
    ELSE RatDivInt(RatAdd(Kesimo(w, Len(w) \div 2), Kesimo(w, Len(w) \div 2 + 1)), 2)
Funciones == {"mean", "median", "sum"}
EsVentana(valor, s, N, f) ==
    /\ Len(valor) = Len(s)
    /\ \A i \in 1..Len(s) : valor[i] = Reduccion(f, VentanaDe(s, i, N))
LlamadaValida ==
    /\ llamada.ventana >= 1
    /\ llamada.columna \in DOMAIN llamada.d
    /\ llamada.funcion \in Funciones
Serie1234 == <<RatInt(1), RatInt(2), RatInt(3), RatInt(4)>>

\* C1: for a series of length L, a window N >= 1 and a tag in {mean, median,
\* sum}, aplicar_funcion_ventana returns L values in row order, the value at
\* row i being the reduction over rows max(0, i-N+1)..i; the first value is
\* the raw first value, rows k < N-1 reduce rows 0..k, and [1,2,3,4] with
\* N = 2 and mean gives [1, 1.5, 2.5, 3.5].
C1_VentanaReduccion ==
    (pc = "retornado" /\ LlamadaValida) =>
        LET s == llamada.d[llamada.columna]
            N == llamada.ventana
            f == llamada.funcion
        IN /\ retorno.error = ""
           /\ EsVentana(retorno.valor, s, N, f)
           /\ Len(s) >= 1 => retorno.valor[1] = s[1]
           /\ \A i \in 1..Len(s) :
                 i < N => retorno.valor[i] = Reduccion(f, SubSeq(s, 1, i))
           /\ (s = Serie1234 /\ N = 2 /\ f = "mean") =>
                 retorno.valor = <<RatInt(1), Rat(3, 2), Rat(5, 2), Rat(7, 2)>>
C1_Witness ==
    /\ pc = "retornado"
    /\ llamada.columna = "x"
    /\ llamada.d["x"] = Serie1234
    /\ llamada.ventana = 2
    /\ llamada.funcion = "mean"
    /\ retorno = Ok(<<RatInt(1), Rat(3, 2), Rat(5, 2), Rat(7, 2)>>)

\* C4: a window size of 0 or less fails with the invalid-window error before
\* anything else is looked at; a positive window with a tag outside {mean,
\* median, sum} fails with the distinct unsupported-function error; neither
\* call returns a series.
C4_Errores ==
    pc = "retornado" =>
        /\ llamada.ventana <= 0 => retorno = Raise(MensajeVentana)
        /\ (/\ llamada.ventana >= 1
            /\ llamada.columna \in DOMAIN llamada.d
            /\ llamada.funcion \notin Funciones) => retorno = Raise(MensajeFuncion)
        /\ MensajeVentana # MensajeFuncion
        /\ retorno.error # "" => retorno.valor = <<>>
        /\ LlamadaValida => retorno.error = ""
C4_Witness ==
    /\ pc = "retornado"
    /\ llamada.ventana >= 1
    /\ llamada.columna = "x"
    /\ Len(llamada.d["x"]) >= 2
    /\ llamada.funcion = "otra"
    /\ retorno = Raise(MensajeFuncion)

Filas(t) == {t[i] : i \in 1..Len(t)}
EstratosCanonicos == {Bajo, Medio, Alto}
\* The raw stratum, trimmed and lower-cased, is one of the three names.
EstratoMapeable(x) ==
    /\ ~IsNA(x)
    /\ \E e \in EstratosCanonicos : StrLower(StrStrip(Val(x))) = StrLower(e)
FaltaObligatoria(r) ==
    IsNA(r.Fecha) \/ IsNA(r.Imagen) \/ IsNA(r.Voto) \/ IsNA(r.VotoAnterior)
\* The cleaned key of a row: survey id, normalised stratum, sex, age.
ClaveLimpia(r) == <<r.Encuesta, r.Estrato, r.Sexo, r.Edad>>

\* C2: cleaning is idempotent: cleaning the cleaned table again returns the
\* same rows with the same values.
C2_Idempotente == pc = "relimpio" => relimpio = limpio

\* C3: in the cleaned table each (survey id, normalised stratum, sex, age)
\* appears in at most one row.
C3_ClaveUnica ==
    pc \in {"limpio", "relimpio"} =>
        \A i, j \in 1..Len(limpio) :
            ClaveLimpia(limpio[i]) = ClaveLimpia(limpio[j]) => i = j

\* C5: vote_intention is 1 exactly when the row's vote equals the target
\* candidate, both trimmed and title-cased, and 0 otherwise.
C5_Intencion ==
    pc \in {"limpio", "relimpio"} =>
        \A r \in Filas(limpio) :
            /\ Val(r.IntencionVoto) \in {0, 1}
            /\ Val(r.IntencionVoto) = 1 <=>
                 StrTitle(StrStrip(Val(df[r.idx].Voto))) =
                     StrTitle(StrStrip(config.candidato_objetivo))

\* C6: every cleaned row has normalized_image = clip(score, 0, 100)/100 in
\* [0,1], vote_intention in {0,1}, a stratum among Bajo, Medio, Alto and no
\* missing date, score, vote or previous vote; an input row with a missing
\* required cell or an unmappable or missing stratum is not in the output.
RangosDe(t) ==
    \A r \in Filas(t) :
        /\ ~FaltaObligatoria(r)
        /\ ~IsNA(r.ImagenNormalizada)
        /\ LET x == Val(r.ImagenNormalizada)
               s == Val(r.Imagen)
           IN /\ 0 <= x.n /\ x.n <= x.d
              /\ x.n * 100 = x.d * (IF s < 0 THEN 0 ELSE IF s > 100 THEN 100 ELSE s)
        /\ r.IntencionVoto \in {Some(0), Some(1)}
        /\ ~IsNA(r.Estrato) /\ Val(r.Estrato) \in EstratosCanonicos
C6_Rangos ==
    /\ pc \in {"limpio", "relimpio"} =>
          /\ RangosDe(limpio)
          /\ \A i \in 1..Len(df) :
                (FaltaObligatoria(df[i]) \/ ~EstratoMapeable(df[i].Estrato)) =>
                    \A r \in Filas(limpio) : r.idx # i
    /\ pc = "relimpio" => RangosDe(relimpio)
C6_Witness ==
    /\ pc = "limpio"
    /\ Len(df) = 2
    /\ Len(limpio) = 1
    /\ df[1].Estrato = Some(<<"d", "e", "s", "c">>)
    /\ ~FaltaObligatoria(df[1])
    /\ df[2].Imagen = Some(150)
    /\ limpio[1].idx = 2
    /\ limpio[1].ImagenNormalizada = Some(RatInt(1))
    /\ limpio[1].Estrato = Some(Alto)

\* The sum of f over the positions of I, for positions 1..n.
SumaPos(n, I, f(_)) ==
    LET S[j \in 0..n] ==
            IF j = 0 THEN 0 ELSE S[j - 1] + (IF j \in I THEN f(j) ELSE 0)
    IN S[n]
SinRango(edad) == IsNA(edad) \/ Val(edad) <= 17 \/ Val(edad) > 120
PrimeraDeSuClave(t, i) ==
    \A j \in 1..(i - 1) : ClaveDuplicados(t[j]) # ClaveDuplicados(t[i])
\* The positions of the cleaned rows of one date, and of one summary group.
PosFecha(f) == {i \in 1..Len(limpio) : limpio[i].Fecha = f}
PosGrupo(g) ==
    {i \in 1..Len(limpio) :
        ClaveIndicadores(limpio[i]) = <<g.Fecha, g.Sexo, g.EdadRango>>}
ClaveCompleta(k) == ~IsNA(k[1]) /\ ~IsNA(k[2]) /\ ~IsNA(k[3])
VotosA(I) == Cardinality({i \in I : limpio[i].IntencionVoto = Some(1)})
ImagenRecortada(i) ==
    LET x == Val(limpio[i].Imagen) IN IF x < 0 THEN 0 ELSE IF x > 100 THEN 100 ELSE x
\* The summary has one row per non-empty group with a complete key, holding
\* the means of the raw image score and of the vote intention of the group.
MediasPorGrupo ==
    /\ \A g \in Filas(indicadores) :
          /\ ClaveCompleta(<<g.Fecha, g.Sexo, g.EdadRango>>)
          /\ PosGrupo(g) # {}
          /\ g.intencion_media = Rat(VotosA(PosGrupo(g)), Cardinality(PosGrupo(g)))
          /\ g.imagen_media =
                Rat(SumaPos(Len(limpio), PosGrupo(g), LAMBDA i : Val(limpio[i].Imagen)),
                    Cardinality(PosGrupo(g)))
    /\ \A a, b \in 1..Len(indicadores) :
          <<indicadores[a].Fecha, indicadores[a].Sexo, indicadores[a].EdadRango>> =
          <<indicadores[b].Fecha, indicadores[b].Sexo, indicadores[b].EdadRango>>
              => a = b
    /\ \A r \in Filas(limpio) :
          ClaveCompleta(ClaveIndicadores(r)) =>
              \E g \in Filas(indicadores) :
                  <<g.Fecha, g.Sexo, g.EdadRango>> = ClaveIndicadores(r)

\* C7: a cleaned row whose age is missing, <= 17 or > 120 is kept with a null
\* age bracket; it belongs to no group of the demographic summary, yet it
\* counts in the daily series, which has exactly one row per date of the
\* cleaned table holding the means over all cleaned rows of that date.
C7_SinRangoCuenta ==
    /\ pc \in {"limpio", "resumido", "suavizado"} =>
          /\ \A r \in Filas(limpio) : IsNA(r.EdadRango) <=> SinRango(r.Edad)
          /\ \A i \in 1..Len(df) :
                (/\ SinRango(df[i].Edad)
                 /\ ~FaltaObligatoria(df[i])
                 /\ EstratoMapeable(df[i].Estrato)
                 /\ PrimeraDeSuClave(df, i)) =>
                    \E r \in Filas(limpio) : r.idx = i /\ IsNA(r.EdadRango)
    /\ pc \in {"resumido", "suavizado"} => MediasPorGrupo
    /\ pc = "suavizado" =>
          /\ \A a, b \in 1..Len(tracking) :
                tracking[a].Fecha = tracking[b].Fecha => a = b
          /\ {tracking[a].Fecha : a \in 1..Len(tracking)} =
                {limpio[i].Fecha : i \in 1..Len(limpio)}
          /\ \A a \in 1..Len(tracking) :
                LET I == PosFecha(tracking[a].Fecha)
                IN /\ tracking[a].IntencionVoto = Rat(VotosA(I), Cardinality(I))
                   /\ tracking[a].ImagenMedia =
                         Rat(SumaPos(Len(limpio), I, ImagenRecortada),
                             100 * Cardinality(I))
C7_Witness ==
    /\ pc = "suavizado"
    /\ Len(limpio) = 2
    /\ limpio[1].Fecha = limpio[2].Fecha
    /\ limpio[1].Sexo = limpio[2].Sexo
    /\ limpio[1].Edad = Some(17) /\ IsNA(limpio[1].EdadRango)
    /\ limpio[1].IntencionVoto = Some(1)
    /\ limpio[1].ImagenNormalizada = Some(Rat(4, 5))
    /\ limpio[2].Edad = Some(30)
    /\ limpio[2].IntencionVoto = Some(0)
    /\ limpio[2].ImagenNormalizada = Some(Rat(3, 5))
    /\ Len(tracking) = 1
    /\ tracking[1].IntencionVoto = Rat(1, 2)
    /\ tracking[1].ImagenMedia = Rat(7, 10)
    /\ Len(indicadores) = 1
    /\ indicadores[1].intencion_media = RatInt(0)
    /\ indicadores[1].imagen_media = RatInt(60)

\* C9: the demographic summary has exactly one row per non-empty (date, sex,
\* age bracket) group with the three keys present; its n is the number of
\* cleaned rows of the group, rows without a survey id included, and its
\* means are taken over those same rows.
C9_Conteo ==
    pc \in {"resumido", "suavizado"} =>
        /\ MediasPorGrupo
        /\ \A g \in Filas(indicadores) : g.n = Cardinality(PosGrupo(g))

Etapas == <<"cargar", "limpiar", "indicadores", "serie", "ventana", "graficar">>
EsPrefijo(a, b) == Len(a) <= Len(b) /\ a = SubSeq(b, 1, Len(a))

\* C8: a run of ejecutar_tracking executes load, clean, demographic summary,
\* daily series, window, chart in that order, each at most once; the chart is
\* written only after every earlier stage completed without error and only
\* when a chart path is configured (a null path ends the run without error
\* and without a chart); a failing stage ends the run with its error, no
\* later stage runs and no chart is written.
C8_Etapas ==
    /\ EsPrefijo(hechos, Etapas)
    /\ grafico =>
          /\ pc = "fin"
          /\ ~IsNA(config.ruta_grafico)
          /\ hechos = Etapas
    /\ pc = "fin" =>
          /\ error = ""
          /\ hechos = Etapas
          /\ grafico <=> ~IsNA(config.ruta_grafico)
    /\ pc = "abortado" <=> error # ""
    /\ pc = "abortado" =>
          /\ ~grafico
          /\ ~ENABLED Next
          /\ error \in {"ParserError", MensajeFecha} => hechos = SubSeq(Etapas, 1, 1)
          /\ (error = MensajeColumna /\ ~(ColumnasCSV \subseteq columnas)) =>
                hechos = SubSeq(Etapas, 1, 2)
          /\ (\/ error \in {MensajeVentana, MensajeFuncion}
              \/ (error = MensajeColumna /\ ColumnasCSV \subseteq columnas)) =>
                hechos = SubSeq(Etapas, 1, 5)
          /\ error = "OSError" => hechos = Etapas
    /\ pc \notin {"fin", "abortado"} => (error = "" /\ hechos # Etapas)
C8_Witness ==
    /\ pc = "abortado"
    /\ error = MensajeVentana
    /\ ~IsNA(config.ruta_grafico)
    /\ hechos = SubSeq(Etapas, 1, 5)
    /\ Len(limpio) = 2
    /\ ~grafico

ColumnaSuavizada == [i \in 1..Len(tracking) |-> tracking[i].TrackingSuavizado]
ColumnaDiaria(c) ==
    [i \in 1..Len(tracking) |->
        IF c = "IntencionVoto" THEN tracking[i].IntencionVoto
        ELSE tracking[i].ImagenMedia]

====
